---- MODULE Spec2Model ----
(***************************************************************************)
(* Model of mdnscontroller: the ingress reconciler (controller package)    *)
(* and the dns-sd process supervisor (mdns.MacHandler).                    *)
(*                                                                         *)
(* Three systems are described over the same variables:                    *)
(*   Spec     the supervisor driven directly through the HostHandler       *)
(*            interface (OnHostsAdded / OnHostsRemoved), its per-host      *)
(*            goroutines and the process-wide context; SpecFair adds the   *)
(*            scheduling fairness, SpecHist records the history variable   *)
(*            hist;                                                        *)
(*   SpecRec  the reconciler callbacks applied to one notification, with   *)
(*            the logging HostHandler recording the intents;               *)
(*   SpecSys  the ingress store, the reconciler and the supervisor         *)
(*            together, recording crashed.                                 *)
(***************************************************************************)
EXTENDS Integers, Sequences, FiniteSets, TLC

\* ------------------------------------------------------------------ bounds
MaxTasks == 2
MaxHosts == 2
MaxRules == 2
NumDecls == 1

\* --------------------------------------------------------------- constants
Hosts == {"a", "b"}
\* hostnames an ingress rule of a single notification may carry
NoteHosts == Hosts \cup {"c"}
NoHost == ""
TaskIds == 1..MaxTasks
NoTask == 0
Ctl == MaxTasks + 1
Decls == 1..NumDecls

VARIABLES
    decls,            \* the ingress store: declaration -> ingress or Absent
    note,             \* the notification being handled by the reconciler
    emitted,          \* HostHandler calls made for that notification, in order
    calls,            \* HostHandler calls the event thread still has to run
    mu,               \* MacHandler.mu: NoTask (free), Ctl or the task holding it
    processes,        \* MacHandler.processes: host -> task owning the CancelFunc
    tasks,            \* the goroutines spawned by startHost
    parentCancelled,  \* MacHandler.ctx is done
    hist,             \* per host: startHost calls since the last stopHost
    crashed,          \* some backend exited while its context was live
    late,             \* hosts of the running add whose backend had returned
                      \* from c.Run() when OnHostsAdded was called
    applied,          \* per declaration: the logged calls applied to a set
    observe           \* which of hist, crashed and late this run records

vars == <<decls, note, emitted, calls, mu, processes, tasks, parentCancelled,
          hist, crashed, late, applied, observe>>

\* ------------------------------------------------------------- sequences
Range(s) == {s[i] : i \in 1..Len(s)}

SeqsUpTo(S, n) == UNION {[1..k -> S] : k \in 0..n}

\* ---------------------------------------------------------------- ingress
Annotations == {"none", "true", "other"}

Ingresses == [ann : Annotations, rules : SeqsUpTo(Hosts \cup {NoHost}, MaxRules)]

Absent == [ann |-> "absent", rules |-> <<>>]

NoteIngresses ==
    [ann : Annotations, rules : SeqsUpTo(NoteHosts \cup {NoHost}, MaxRules)]

\* payloads the informer hands to the callbacks
Objects ==
    [shape : {"ingress", "tombstone"}, ing : NoteIngresses]
        \cup {[shape |-> "other", ing |-> Absent],
              [shape |-> "tombother", ing |-> Absent]}

NoObj == [shape |-> "none", ing |-> Absent]

isEnabled(ing) == ing.ann = "true"

extractHosts(ing) == SelectSeq(ing.rules, LAMBDA r : r # NoHost)

\* calculateHostDiff returning its two results in the wrong order
calculateHostDiff_swapped(oldList, newList) ==
    [added   |-> SelectSeq(oldList, LAMBDA h : h \notin Range(newList)),
     removed |-> SelectSeq(newList, LAMBDA h : h \notin Range(oldList))]

\* hosts in newList but not in oldList (added), in oldList but not in
\* newList (removed)
calculateHostDiff(oldList, newList) ==
    [added   |-> SelectSeq(newList, LAMBDA h : h \notin Range(oldList)),
     removed |-> SelectSeq(oldList, LAMBDA h : h \notin Range(newList))]

Added(hosts) == [op |-> "add", hosts |-> hosts]
Removed(hosts) == [op |-> "remove", hosts |-> hosts]

\* onAdd without the len(hosts) > 0 test
onAdd_noLenTest(obj) ==
    IF obj.shape # "ingress" THEN <<>>
    ELSE IF ~isEnabled(obj.ing) THEN <<>>
    ELSE <<Added(extractHosts(obj.ing))>>

\* the HostHandler calls onAdd makes, in order
onAdd(obj) ==
    IF obj.shape # "ingress" THEN <<>>
    ELSE IF ~isEnabled(obj.ing) THEN <<>>
    ELSE IF Len(extractHosts(obj.ing)) > 0
         THEN <<Added(extractHosts(obj.ing))>>
         ELSE <<>>

\* onUpdate registering the new hosts before unregistering the removed ones
onUpdate_addFirst(oldObj, newObj) ==
    IF oldObj.shape # "ingress" \/ newObj.shape # "ingress" THEN <<>>
    ELSE LET wasEnabled == isEnabled(oldObj.ing)
             nowEnabled == isEnabled(newObj.ing)
             oldHosts == extractHosts(oldObj.ing)
             newHosts == extractHosts(newObj.ing)
             d == calculateHostDiff(oldHosts, newHosts)
         IN  IF ~wasEnabled /\ nowEnabled THEN <<Added(newHosts)>>
             ELSE IF wasEnabled /\ ~nowEnabled THEN <<Removed(oldHosts)>>
             ELSE IF nowEnabled
                  THEN (IF Len(d.added) > 0 THEN <<Added(d.added)>> ELSE <<>>)
                       \o (IF Len(d.removed) > 0 THEN <<Removed(d.removed)>> ELSE <<>>)
                  ELSE <<>>

\* onUpdate unregistering the hosts of the new snapshot when disabled
onUpdate_disableNewHosts(oldObj, newObj) ==
    IF oldObj.shape # "ingress" \/ newObj.shape # "ingress" THEN <<>>
    ELSE LET wasEnabled == isEnabled(oldObj.ing)
             nowEnabled == isEnabled(newObj.ing)
             oldHosts == extractHosts(oldObj.ing)
             newHosts == extractHosts(newObj.ing)
             d == calculateHostDiff(oldHosts, newHosts)
         IN  IF ~wasEnabled /\ nowEnabled THEN <<Added(newHosts)>>
             ELSE IF wasEnabled /\ ~nowEnabled THEN <<Removed(newHosts)>>
             ELSE IF nowEnabled
                  THEN (IF Len(d.removed) > 0 THEN <<Removed(d.removed)>> ELSE <<>>)
                       \o (IF Len(d.added) > 0 THEN <<Added(d.added)>> ELSE <<>>)
                  ELSE <<>>

\* onUpdate diffing the host lists whether or not the ingress is enabled
onUpdate_noEnabledTest(oldObj, newObj) ==
    IF oldObj.shape # "ingress" \/ newObj.shape # "ingress" THEN <<>>
    ELSE LET wasEnabled == isEnabled(oldObj.ing)
             nowEnabled == isEnabled(newObj.ing)
             oldHosts == extractHosts(oldObj.ing)
             newHosts == extractHosts(newObj.ing)
             d == calculateHostDiff(oldHosts, newHosts)
         IN  IF ~wasEnabled /\ nowEnabled THEN <<Added(newHosts)>>
             ELSE IF wasEnabled /\ ~nowEnabled THEN <<Removed(oldHosts)>>
             ELSE (IF Len(d.removed) > 0 THEN <<Removed(d.removed)>> ELSE <<>>)
                  \o (IF Len(d.added) > 0 THEN <<Added(d.added)>> ELSE <<>>)

\* onUpdate registering only the difference when the ingress gets enabled
onUpdate_enableDiff(oldObj, newObj) ==
    IF oldObj.shape # "ingress" \/ newObj.shape # "ingress" THEN <<>>
    ELSE LET wasEnabled == isEnabled(oldObj.ing)
             nowEnabled == isEnabled(newObj.ing)
             oldHosts == extractHosts(oldObj.ing)
             newHosts == extractHosts(newObj.ing)
             d == calculateHostDiff(oldHosts, newHosts)
         IN  IF ~wasEnabled /\ nowEnabled THEN <<Added(d.added)>>
             ELSE IF wasEnabled /\ ~nowEnabled THEN <<Removed(oldHosts)>>
             ELSE IF nowEnabled
                  THEN (IF Len(d.removed) > 0 THEN <<Removed(d.removed)>> ELSE <<>>)
                       \o (IF Len(d.added) > 0 THEN <<Added(d.added)>> ELSE <<>>)
                  ELSE <<>>

\* the HostHandler calls onUpdate makes, in order
onUpdate(oldObj, newObj) ==
    IF oldObj.shape # "ingress" \/ newObj.shape # "ingress" THEN <<>>
    ELSE LET wasEnabled == isEnabled(oldObj.ing)
             nowEnabled == isEnabled(newObj.ing)
             oldHosts == extractHosts(oldObj.ing)
             newHosts == extractHosts(newObj.ing)
             d == calculateHostDiff(oldHosts, newHosts)
         IN  IF ~wasEnabled /\ nowEnabled THEN <<Added(newHosts)>>
             ELSE IF wasEnabled /\ ~nowEnabled THEN <<Removed(oldHosts)>>
             ELSE IF nowEnabled
                  THEN (IF Len(d.removed) > 0 THEN <<Removed(d.removed)>> ELSE <<>>)
                       \o (IF Len(d.added) > 0 THEN <<Added(d.added)>> ELSE <<>>)
                  ELSE <<>>

\* onDelete without the DeletedFinalStateUnknown branch
onDelete_noTombstone(obj) ==
    IF obj.shape # "ingress" THEN <<>>
    ELSE IF isEnabled(obj.ing) THEN <<Removed(extractHosts(obj.ing))>>
    ELSE <<>>

\* the HostHandler calls onDelete makes, in order
onDelete(obj) ==
    IF obj.shape \notin {"ingress", "tombstone"} THEN <<>>
    ELSE IF isEnabled(obj.ing) THEN <<Removed(extractHosts(obj.ing))>>
    ELSE <<>>

\* ------------------------------------------------------------- supervisor
FreeTask == [host |-> NoHost, pc |-> "free", cancelled |-> FALSE]

FreeIds == {t \in TaskIds : tasks[t].pc = "free"}

NewId == CHOOSE t \in FreeIds : \A u \in FreeIds : t <= u

\* a host context derived from context.Background() instead of mh.ctx
WithCancel_background(parentDone) == FALSE

\* context.WithCancel(parent): the child is done as soon as the parent is
WithCancel(parentDone) == parentDone

\* tasks of host h that startHost spawned and whose backend has not exited
Running(h) ==
    {t \in TaskIds : tasks[t].host = h /\ tasks[t].pc \in {"spawned", "running"}}

\* tasks of host h, whatever their position
TasksOf(h) == {t \in TaskIds : tasks[t].host = h /\ tasks[t].pc # "free"}

\* the state NewMacHandler and NewMDNS leave
Fresh ==
    /\ decls = [d \in Decls |-> Absent]
    /\ emitted = <<>>
    /\ calls = <<>>
    /\ mu = NoTask
    /\ processes = [h \in Hosts |-> NoTask]
    /\ tasks = [t \in TaskIds |-> FreeTask]
    /\ parentCancelled = FALSE
    /\ hist = [h \in Hosts |-> [adds |-> 0, clean |-> TRUE]]
    /\ crashed = FALSE
    /\ late = {}
    /\ applied = [d \in Decls |-> {}]

NoNote == [kind |-> "none", old |-> NoObj, new |-> NoObj, handled |-> TRUE]

Init == Fresh /\ note = NoNote /\ observe = {}

\* ---------------------------------------------------------- MacHandler
\* startHost without the "already registered" test
startHost_noExistsTest(h) ==
    /\ processes' = [processes EXCEPT ![h] = NewId]
    /\ tasks' = [tasks EXCEPT ![NewId] =
                     [host |-> h, pc |-> "spawned",
                      cancelled |-> WithCancel(parentCancelled)]]

\* startHost's critical section: skip a registered host, else derive the
\* host context, store its CancelFunc and spawn the goroutine
startHost(h) ==
    IF processes[h] # NoTask
    THEN UNCHANGED <<processes, tasks>>
    ELSE /\ processes' = [processes EXCEPT ![h] = NewId]
         /\ tasks' = [tasks EXCEPT ![NewId] =
                          [host |-> h, pc |-> "spawned",
                           cancelled |-> WithCancel(parentCancelled)]]

\* stopHost deleting the entry without calling cancel()
stopHost_noCancel(h) ==
    IF processes[h] = NoTask
    THEN UNCHANGED <<processes, tasks>>
    ELSE /\ processes' = [processes EXCEPT ![h] = NoTask]
         /\ UNCHANGED tasks

\* stopHost without the "not found" test: it cancels whatever runs for h
stopHost_noExistsTest(h) ==
    /\ processes' = [processes EXCEPT ![h] = NoTask]
    /\ tasks' = [t \in TaskIds |->
                    IF tasks[t].host = h
                    THEN [tasks[t] EXCEPT !.cancelled = TRUE]
                    ELSE tasks[t]]

\* stopHost cancelling without the delete
stopHost_noDelete(h) ==
    IF processes[h] = NoTask
    THEN UNCHANGED <<processes, tasks>>
    ELSE /\ UNCHANGED processes
         /\ tasks' = [tasks EXCEPT ![processes[h]].cancelled = TRUE]

\* stopHost cancelling every context it finds
stopHost_cancelsAll(h) ==
    IF processes[h] = NoTask
    THEN UNCHANGED <<processes, tasks>>
    ELSE /\ processes' = [processes EXCEPT ![h] = NoTask]
         /\ tasks' = [t \in TaskIds |->
                         IF tasks[t].pc = "free" THEN tasks[t]
                         ELSE [tasks[t] EXCEPT !.cancelled = TRUE]]

\* stopHost's critical section: skip an unknown host, else cancel and delete
stopHost(h) ==
    IF processes[h] = NoTask
    THEN UNCHANGED <<processes, tasks>>
    ELSE /\ processes' = [processes EXCEPT ![h] = NoTask]
         /\ tasks' = [tasks EXCEPT ![processes[h]].cancelled = TRUE]

\* the calls that have a host to loop over
Enqueue(intents) == SelectSeq(intents, LAMBDA c : Len(c.hosts) > 0)

\* the event thread moves to the next host of the call, or to the next call
Advance ==
    IF Len(Head(calls).hosts) = 1
    THEN Tail(calls)
    ELSE <<[Head(calls) EXCEPT !.hosts = Tail(@)]>> \o Tail(calls)

\* goroutines the calls may spawn
Spawns(intents) ==
    Cardinality({<<i, j>> \in (1..Len(intents)) \X (1..MaxRules + MaxHosts) :
                    intents[i].op = "add" /\ j <= Len(intents[i].hosts)})

\* the event thread is between two callbacks and the informer still runs
Idle == calls = <<>> /\ mu # Ctl /\ ~parentCancelled

CurHost == Head(Head(calls).hosts)

\* the entry of h names a goroutine that is past c.Run()
Returned(h) ==
    /\ processes[h] # NoTask
    /\ tasks[processes[h]].pc \in {"exited", "locked"}

OnHostsAdded(hosts) ==
    /\ Idle
    /\ Cardinality(FreeIds) >= Len(hosts)
    /\ calls' = <<Added(hosts)>>
    /\ late' = IF "late" \notin observe THEN late
               ELSE {h \in Range(hosts) : Returned(h)}
    /\ UNCHANGED <<observe, applied, decls, note, emitted, mu, processes, tasks, parentCancelled,
                   hist, crashed>>

OnHostsRemoved(hosts) ==
    /\ Idle
    /\ calls' = <<Removed(hosts)>>
    /\ UNCHANGED <<observe, late, applied, decls, note, emitted, mu, processes, tasks, parentCancelled,
                   hist, crashed>>

\* startHost going on only once no backend is left, as if it ran them itself
StartHostLock_waitsBackend ==
    /\ calls # <<>>
    /\ Head(calls).op = "add"
    /\ mu = NoTask
    /\ \A t \in TaskIds : tasks[t].pc \notin {"spawned", "running"}
    /\ mu' = Ctl
    /\ UNCHANGED <<observe, late, applied, decls, note, emitted, calls, processes, tasks,
                   parentCancelled, hist, crashed>>

\* mh.mu.Lock() in startHost
StartHostLock ==
    /\ calls # <<>>
    /\ Head(calls).op = "add"
    /\ mu = NoTask
    /\ mu' = Ctl
    /\ UNCHANGED <<observe, late, applied, decls, note, emitted, calls, processes, tasks,
                   parentCancelled, hist, crashed>>

\* the rest of startHost, up to the deferred Unlock
StartHost ==
    /\ calls # <<>>
    /\ Head(calls).op = "add"
    /\ mu = Ctl
    /\ startHost(CurHost)
    /\ mu' = NoTask
    /\ calls' = Advance
    /\ hist' = IF "hist" \notin observe THEN hist
               ELSE [hist EXCEPT ![CurHost] =
                        IF @.adds = 0
                        THEN [adds |-> 1, clean |-> TasksOf(CurHost) = {}]
                        ELSE [adds |-> 2, clean |-> @.clean]]
    /\ late' = late \ {CurHost}
    /\ UNCHANGED <<observe, applied, decls, note, emitted, parentCancelled, crashed>>

\* mh.mu.Lock() in stopHost
StopHostLock ==
    /\ calls # <<>>
    /\ Head(calls).op = "remove"
    /\ mu = NoTask
    /\ mu' = Ctl
    /\ UNCHANGED <<observe, late, applied, decls, note, emitted, calls, processes, tasks,
                   parentCancelled, hist, crashed>>

\* the rest of stopHost, up to the deferred Unlock
StopHost ==
    /\ calls # <<>>
    /\ Head(calls).op = "remove"
    /\ mu = Ctl
    /\ stopHost(CurHost)
    /\ mu' = NoTask
    /\ calls' = Advance
    /\ hist' = IF "hist" \notin observe THEN hist
               ELSE [hist EXCEPT ![CurHost] = [adds |-> 0, clean |-> TRUE]]
    /\ UNCHANGED <<observe, late, applied, decls, note, emitted, parentCancelled, crashed>>

\* the goroutine taking mh.mu before c.Run() instead of after it
TaskRun_underLock(t) ==
    /\ tasks[t].pc = "spawned"
    /\ mu = NoTask
    /\ mu' = t
    /\ tasks' = [tasks EXCEPT ![t].pc = "running"]
    /\ UNCHANGED <<observe, late, applied, decls, note, emitted, calls, processes, parentCancelled,
                   hist, crashed>>

\* the goroutine reaches c.Run()
TaskRun(t) ==
    /\ tasks[t].pc = "spawned"
    /\ tasks' = [tasks EXCEPT ![t].pc = "running"]
    /\ UNCHANGED <<observe, late, applied, decls, note, emitted, calls, mu, processes, parentCancelled,
                   hist, crashed>>

\* c.Run() returns: the context was cancelled, or dns-sd ended on its own
BackendExit(t) ==
    /\ tasks[t].pc = "running"
    /\ tasks' = [tasks EXCEPT ![t].pc = "exited"]
    /\ crashed' = (crashed \/ ("crashed" \in observe /\ ~tasks[t].cancelled))
    /\ hist' = IF "hist" \notin observe THEN hist
               ELSE [hist EXCEPT ![tasks[t].host].clean = FALSE]
    /\ UNCHANGED <<observe, late, applied, decls, note, emitted, calls, mu, processes, parentCancelled>>

\* mh.mu.Lock() in the goroutine
TaskLock(t) ==
    /\ tasks[t].pc = "exited"
    /\ mu = NoTask
    /\ mu' = t
    /\ tasks' = [tasks EXCEPT ![t].pc = "locked"]
    /\ UNCHANGED <<observe, late, applied, decls, note, emitted, calls, processes, parentCancelled,
                   hist, crashed>>

\* the exit handler unlocking without the delete
TaskDelete_keepsEntry(t) ==
    /\ tasks[t].pc = "locked"
    /\ mu = t
    /\ mu' = NoTask
    /\ tasks' = [tasks EXCEPT ![t] = FreeTask]
    /\ UNCHANGED <<observe, late, applied, decls, note, emitted, calls, processes,
                   parentCancelled, hist, crashed>>

\* delete(mh.processes, h); mh.mu.Unlock(); the goroutine ends
TaskDelete(t) ==
    /\ tasks[t].pc = "locked"
    /\ mu = t
    /\ processes' = [processes EXCEPT ![tasks[t].host] = NoTask]
    /\ mu' = NoTask
    /\ tasks' = [tasks EXCEPT ![t] = FreeTask]
    /\ UNCHANGED <<observe, late, applied, decls, note, emitted, calls, parentCancelled, hist, crashed>>

\* the signal context of main is cancelled: every derived context is done
ParentCancel ==
    /\ ~parentCancelled
    /\ parentCancelled' = TRUE
    /\ tasks' = [t \in TaskIds |->
                    IF tasks[t].pc = "free" THEN tasks[t]
                    ELSE [tasks[t] EXCEPT !.cancelled = TRUE]]
    /\ UNCHANGED <<observe, late, applied, decls, note, emitted, calls, mu, processes, hist, crashed>>

HostLists == SeqsUpTo(Hosts, MaxHosts) \ {<<>>}

Supervisor ==
    \/ StartHostLock
    \/ StartHost
    \/ StopHostLock
    \/ StopHost
    \/ \E t \in TaskIds : TaskRun(t)
    \/ \E t \in TaskIds : BackendExit(t)
    \/ \E t \in TaskIds : TaskLock(t)
    \/ \E t \in TaskIds : TaskDelete(t)
    \/ ParentCancel

Next ==
    \/ \E hosts \in HostLists : OnHostsAdded(hosts)
    \/ \E hosts \in HostLists : OnHostsRemoved(hosts)
    \/ Supervisor

Spec == Init /\ [][Next]_vars

\* Go schedules every runnable goroutine and sync.Mutex hands the lock on;
\* a backend whose context is cancelled is killed and c.Run() returns
Progress ==
    \/ StartHostLock
    \/ StartHost
    \/ StopHostLock
    \/ StopHost
    \/ \E t \in TaskIds : TaskRun(t)
    \/ \E t \in TaskIds : tasks[t].cancelled /\ BackendExit(t)
    \/ \E t \in TaskIds : TaskLock(t)
    \/ \E t \in TaskIds : TaskDelete(t)

SpecFair == Spec /\ WF_vars(Progress)

\* sync.Mutex does not starve a goroutine blocked in Lock(), and a goroutine
\* holding the lock gets to its Unlock()
Handover ==
    \A t \in TaskIds : SF_vars(TaskLock(t)) /\ WF_vars(TaskDelete(t))

\* recording late
InitLate == Fresh /\ note = NoNote /\ observe = {"late"}

SpecLive == InitLate /\ [][Next]_vars /\ WF_vars(Progress) /\ Handover

\* the event thread runs, and a goroutine in its exit handler gets to its
\* Unlock(); nothing is assumed of the backends, which may hang for ever
EventThread == StartHostLock \/ StartHost \/ StopHostLock \/ StopHost

SpecHang ==
    Spec /\ WF_vars(EventThread) /\ \A t \in TaskIds : WF_vars(TaskDelete(t))

\* the same supervisor, recording hist
InitHist == Fresh /\ note = NoNote /\ observe = {"hist"}

SpecHist == InitHist /\ [][Next]_vars

\* ------------------------------------------------- reconciler, one callback
\* the notifications the informer can deliver
Notes ==
    [kind : {"add", "delete"}, old : {NoObj}, new : Objects, handled : {FALSE}]
        \cup [kind : {"update"}, old : Objects, new : Objects, handled : {FALSE}]

InitRec == Fresh /\ note \in Notes /\ observe = {}

\* the handler of the demonstration build only logs its calls
Logged(intents) ==
    /\ emitted' = intents
    /\ note' = [note EXCEPT !.handled = TRUE]
    /\ UNCHANGED <<observe, late, applied, decls, calls, mu, processes, tasks, parentCancelled, hist,
                   crashed>>

RecOnAdd == note.kind = "add" /\ ~note.handled /\ Logged(onAdd(note.new))

RecOnUpdate ==
    note.kind = "update" /\ ~note.handled /\ Logged(onUpdate(note.old, note.new))

RecOnDelete == note.kind = "delete" /\ ~note.handled /\ Logged(onDelete(note.new))

NextRec == RecOnAdd \/ RecOnUpdate \/ RecOnDelete

SpecRec == InitRec /\ [][NextRec]_vars

\* ------------------------------------- store, reconciler, logged calls
\* the set of hosts after the calls: OnHostsAdded joins, OnHostsRemoved takes
\* away
RECURSIVE Replay(_, _)
Replay(set, intents) ==
    IF intents = <<>> THEN set
    ELSE Replay(IF Head(intents).op = "add"
                THEN set \cup Range(Head(intents).hosts)
                ELSE set \ Range(Head(intents).hosts),
                Tail(intents))

\* the logging handler, its calls for declaration d applied as they come
Replayed(d, intents) ==
    /\ emitted' = intents
    /\ applied' = [applied EXCEPT ![d] = Replay(@, intents)]
    /\ UNCHANGED <<observe, late, note, calls, mu, processes, tasks, parentCancelled,
                   hist, crashed>>

ReplayCreate(d, ing) ==
    /\ decls[d] = Absent
    /\ decls' = [decls EXCEPT ![d] = ing]
    /\ Replayed(d, onAdd([shape |-> "ingress", ing |-> ing]))

ReplayUpdate(d, ing) ==
    /\ decls[d] # Absent
    /\ decls' = [decls EXCEPT ![d] = ing]
    /\ Replayed(d, onUpdate([shape |-> "ingress", ing |-> decls[d]],
                            [shape |-> "ingress", ing |-> ing]))

ReplayDelete(d, shape) ==
    /\ decls[d] # Absent
    /\ decls' = [decls EXCEPT ![d] = Absent]
    /\ Replayed(d, onDelete([shape |-> shape, ing |-> decls[d]]))

\* the declaration whose notifications are followed
Followed == CHOOSE d \in Decls : TRUE

NextReplay ==
    \/ \E ing \in Ingresses : ReplayCreate(Followed, ing)
    \/ \E ing \in Ingresses : ReplayUpdate(Followed, ing)
    \/ \E shape \in {"ingress", "tombstone"} : ReplayDelete(Followed, shape)

SpecReplay == Init /\ [][NextReplay]_vars

\* ------------------------------------- store, reconciler and supervisor
Obj(ing) == [shape |-> "ingress", ing |-> ing]

\* the callback hands its calls to the MacHandler, which runs them in order
Handled(intents) ==
    /\ Idle
    /\ Cardinality(FreeIds) >= Spawns(intents)
    /\ calls' = Enqueue(intents)
    /\ UNCHANGED <<observe, late, applied, note, emitted, mu, processes, tasks,
                   parentCancelled, hist, crashed>>

StoreCreate(d, ing) ==
    /\ decls[d] = Absent
    /\ decls' = [decls EXCEPT ![d] = ing]
    /\ Handled(onAdd(Obj(ing)))

StoreUpdate(d, ing) ==
    /\ decls[d] # Absent
    /\ decls' = [decls EXCEPT ![d] = ing]
    /\ Handled(onUpdate(Obj(decls[d]), Obj(ing)))

StoreDelete(d, shape) ==
    /\ decls[d] # Absent
    /\ decls' = [decls EXCEPT ![d] = Absent]
    /\ Handled(onDelete([shape |-> shape, ing |-> decls[d]]))

NextSys ==
    \/ \E d \in Decls, ing \in Ingresses : StoreCreate(d, ing)
    \/ \E d \in Decls, ing \in Ingresses : StoreUpdate(d, ing)
    \/ \E d \in Decls, shape \in {"ingress", "tombstone"} : StoreDelete(d, shape)
    \/ Supervisor

\* recording crashed
InitSys == Fresh /\ note = NoNote /\ observe = {"crashed"}

SpecSys == InitSys /\ [][NextSys]_vars

\* ================================================================ claims
\* the event thread leaves startHost / stopHost
StartStep == mu = Ctl /\ mu' = NoTask /\ calls # <<>> /\ Head(calls).op = "add"
StopStep == mu = Ctl /\ mu' = NoTask /\ calls # <<>> /\ Head(calls).op = "remove"

Registry == {h \in Hosts : processes[h] # NoTask}
RunningHosts == {h \in Hosts : Running(h) # {}}

\* C1: for every hostname at most one advertisement task is running, a task
\* running from the moment startHost spawns it until its backend has exited.
C1_AtMostOneRunningTask == \A h \in Hosts : Cardinality(Running(h)) <= 1

\* C2: the exit handler of a task deletes the Registry entry of its host only
\* if that entry is the one the task inserted; the entry of a newer task
\* survives the exit of an older one.
C2_ExitDeletesOwnEntryOnly ==
    [][\A t \in TaskIds : \A h \in Hosts :
          (mu = t /\ mu' = NoTask /\ processes[h] # t)
              => processes'[h] = processes[h]]_vars

\* hosts of the declarations that exist and are enabled
Desired ==
    UNION {Range(extractHosts(decls[d])) : d \in {e \in Decls : isEnabled(decls[e])}}

\* every notification is processed, every cancelled task is gone, no backend
\* failed on its own and the process is not shutting down
Quiescent ==
    /\ calls = <<>>
    /\ mu = NoTask
    /\ ~crashed
    /\ ~parentCancelled
    /\ \A t \in TaskIds : tasks[t].cancelled => tasks[t].pc = "free"

\* C3: in a quiescent state the Registry, and the set of hosts with a running
\* task, equal the union of the host sets of the enabled declarations.
C3_SteadyStateConverges ==
    Quiescent => (Registry = Desired /\ RunningHosts = Desired)

\* startHost on a registered host changes neither the Registry nor any task
C4_NoOpOnRegistered ==
    (StartStep /\ processes[CurHost] # NoTask)
        => (processes' = processes /\ tasks' = tasks)

C5_RemoveCancelsAndDeletes ==
    [][\A h \in Hosts : \A t \in TaskIds :
          (StopStep /\ h = CurHost /\ processes[h] = t)
              => (processes'[h] = NoTask /\ tasks'[t].cancelled
                  /\ tasks'[t].pc = tasks[t].pc)]_vars

C5_Witness ==
    \E t \in TaskIds :
        /\ tasks[t].pc = "running"
        /\ tasks[t].cancelled
        /\ ~parentCancelled
        /\ processes[tasks[t].host] = NoTask
        /\ calls = <<>>

\* C6: stopHost on a host without entry cancels nothing, starts and stops
\* nothing and leaves the Registry as it is.
C6_RemoveAbsentIsNoOp ==
    [][(StopStep /\ processes[CurHost] = NoTask)
          => (processes' = processes /\ tasks' = tasks
              /\ parentCancelled' = parentCancelled /\ crashed' = crashed)]_vars

\* the second stopHost of OnHostsRemoved([h, h]) is about to run
C6_Witness ==
    /\ mu = Ctl
    /\ calls # <<>>
    /\ Head(calls).op = "remove"
    /\ processes[CurHost] = NoTask
    /\ \E t \in TasksOf(CurHost) : tasks[t].cancelled /\ tasks[t].pc = "running"

NoTaskLeft ==
    /\ \A t \in TaskIds : tasks[t].pc = "free"
    /\ Registry = {}

\* C7: once the parent context is cancelled every outstanding task is
\* cancelled, also one started afterwards, and eventually no task is left
\* and the Registry is empty.
C7_GlobalShutdown ==
    /\ [](parentCancelled =>
            \A t \in TaskIds : tasks[t].pc # "free" => tasks[t].cancelled)
    /\ (parentCancelled ~> NoTaskLeft)

\* a task is running while startHost is about to start another one after
\* the parent context was cancelled
C7_Witness ==
    /\ parentCancelled
    /\ mu = Ctl
    /\ calls # <<>>
    /\ Head(calls).op = "add"
    /\ processes[CurHost] = NoTask
    /\ \E t \in TaskIds : tasks[t].pc = "running"

\* C8: a goroutine that has not returned from c.Run() does not hold mh.mu,
\* and whoever holds mh.mu can release it without waiting for a backend.
C8_LockNotHeldAcrossBackend ==
    /\ \A t \in TaskIds : tasks[t].pc \in {"spawned", "running", "exited"} => mu # t
    /\ mu # NoTask => ENABLED (StartHost \/ StopHost \/ \E t \in TaskIds : TaskDelete(t))

\* stopHost / startHost for one host inside its critical section while the
\* backend of another host runs
C8_Witness ==
    /\ mu = Ctl
    /\ calls # <<>>
    /\ \E t \in TaskIds : tasks[t].pc = "running" /\ tasks[t].host # CurHost

\* positions of the calls of one kind among the emitted ones
Emitted(op) == {i \in 1..Len(emitted) : emitted[i].op = op}

BothIngress == note.old.shape = "ingress" /\ note.new.shape = "ingress"

OldSet == Range(extractHosts(note.old.ing))
NewSet == Range(extractHosts(note.new.ing))

\* C9: an update between two enabled snapshots emits HostsRemoved(old \ new)
\* iff that set is not empty, then HostsAdded(new \ old) iff that set is not
\* empty; hosts of both snapshots appear in neither call.
C9_EnabledUpdateEmitsDelta ==
    (note.handled /\ note.kind = "update" /\ BothIngress
        /\ isEnabled(note.old.ing) /\ isEnabled(note.new.ing))
    => /\ Cardinality(Emitted("remove")) = (IF OldSet \ NewSet = {} THEN 0 ELSE 1)
       /\ Cardinality(Emitted("add")) = (IF NewSet \ OldSet = {} THEN 0 ELSE 1)
       /\ Len(emitted) = Cardinality(Emitted("remove")) + Cardinality(Emitted("add"))
       /\ \A i \in Emitted("remove") : Range(emitted[i].hosts) = OldSet \ NewSet
       /\ \A i \in Emitted("add") : Range(emitted[i].hosts) = NewSet \ OldSet
       /\ \A i \in Emitted("remove") : \A j \in Emitted("add") : i < j

C9_Witness ==
    /\ note.handled
    /\ note.kind = "update"
    /\ isEnabled(note.old.ing)
    /\ note.old.ing.rules = <<"a", "b">>
    /\ note.new.ing.rules = <<"b", "c">>
    /\ emitted = <<Removed(<<"a">>), Added(<<"c">>)>>

\* an update that enables the declaration
Enabling ==
    /\ note.kind = "update"
    /\ BothIngress
    /\ ~isEnabled(note.old.ing)
    /\ isEnabled(note.new.ing)

\* the creation of an enabled declaration
CreatedEnabled ==
    /\ note.kind = "add"
    /\ note.new.shape = "ingress"
    /\ isEnabled(note.new.ing)

\* C10 as claimed: enabling a declaration, or creating an enabled one, emits
\* exactly one HostsAdded with the host list of the current snapshot and no
\* HostsRemoved.
C10_Original ==
    (note.handled /\ (Enabling \/ CreatedEnabled))
        => emitted = <<Added(extractHosts(note.new.ing))>>

\* C10 as amended: enabling a declaration, or creating an enabled one that
\* lists at least one host, emits exactly one HostsAdded with the host list
\* of the current snapshot and no HostsRemoved; creating an enabled
\* declaration without hosts emits nothing.
C10_EnableEmitsOneAdd ==
    note.handled =>
        /\ (Enabling \/ (CreatedEnabled /\ NewSet # {}))
              => emitted = <<Added(extractHosts(note.new.ing))>>
        /\ (CreatedEnabled /\ NewSet = {}) => emitted = <<>>

C10_Witness ==
    /\ note.handled
    /\ Enabling
    /\ note.new.ing.rules = <<"a", "b">>
    /\ emitted = <<Added(<<"a", "b">>)>>


\* an update that disables the declaration
Disabling ==
    /\ note.kind = "update"
    /\ BothIngress
    /\ isEnabled(note.old.ing)
    /\ ~isEnabled(note.new.ing)

\* the deletion of an enabled declaration, handed over as such or in a
\* tombstone
DeletedEnabled ==
    /\ note.kind = "delete"
    /\ note.new.shape \in {"ingress", "tombstone"}
    /\ isEnabled(note.new.ing)

\* C11: disabling a declaration emits exactly one HostsRemoved with the host
\* list of the previous snapshot, whatever the current one lists, and no
\* HostsAdded; so does deleting an enabled declaration, with its last hosts.
C11_DisableEmitsOneRemove ==
    note.handled =>
        /\ Disabling => emitted = <<Removed(extractHosts(note.old.ing))>>
        /\ DeletedEnabled => emitted = <<Removed(extractHosts(note.new.ing))>>

C11_Witness ==
    /\ note.handled
    /\ Disabling
    /\ note.old.ing.rules = <<"a", "b">>
    /\ note.new.ing.rules = <<"c">>
    /\ emitted = <<Removed(<<"a", "b">>)>>

\* C12: a store event about a declaration that is disabled (or absent) before
\* and after -- a create, an update or a delete -- makes no HostHandler call
\* and leaves the Registry, the tasks and the lock as they were.
C12_DisabledEmitsNothing ==
    [][\A d \in Decls :
          (decls'[d] # decls[d] /\ ~isEnabled(decls[d]) /\ ~isEnabled(decls'[d]))
              => UNCHANGED <<calls, processes, tasks, mu>>]_vars

\* a disabled declaration with hosts is in the store and nothing was called
C12_Witness ==
    /\ decls[1].ann = "other"
    /\ decls[1].rules = <<"a", "b">>
    /\ calls = <<>>
    /\ Registry = {}
    /\ \A t \in TaskIds : tasks[t].pc = "free"

ListA == extractHosts(note.old.ing)
ListB == extractHosts(note.new.ing)

\* C13: for the host lists A and B of two snapshots, calculateHostDiff(A, B)
\* returns added = B \ A and removed = A \ B as sets, which are disjoint,
\* (A \ removed) \cup added has the elements of B, and
\* calculateHostDiff(A, A) returns two empty lists.
C13_DiffIsSetDifference ==
    (note.kind = "update" /\ BothIngress) =>
        LET d == calculateHostDiff(ListA, ListB)
            same == calculateHostDiff(ListA, ListA)
        IN  /\ Range(d.added) \cap Range(d.removed) = {}
            /\ Range(d.added) = Range(ListB) \ Range(ListA)
            /\ Range(d.removed) = Range(ListA) \ Range(ListB)
            /\ (Range(ListA) \ Range(d.removed)) \cup Range(d.added) = Range(ListB)
            /\ same.added = <<>>
            /\ same.removed = <<>>

\* lists with duplicates, in different orders, went through the diff
C13_Witness ==
    /\ note.handled
    /\ note.kind = "update"
    /\ isEnabled(note.old.ing)
    /\ note.old.ing.rules = <<"b", "b">>
    /\ note.new.ing.rules = <<"a", "b">>
    /\ emitted = <<Added(<<"a">>)>>

\* some payload of the notification is no ingress
Malformed == note.new.shape # "ingress" \/ (note.kind = "update" /\ ~BothIngress)

\* C14 as claimed: a notification with a payload that is no declaration, a
\* tombstone included, makes onAdd, onUpdate and onDelete emit nothing.
C14_Original == (note.handled /\ Malformed) => emitted = <<>>

\* a deletion handed over in a tombstone that carries the ingress
Tombstoned == note.kind = "delete" /\ note.new.shape = "tombstone"

\* C14 as amended: a notification with a payload that is no declaration makes
\* onAdd and onUpdate emit nothing, a tombstone included; onDelete emits
\* nothing unless the payload is a tombstone that carries a declaration,
\* which it handles as the deletion of that declaration.
C14_MalformedDropped ==
    note.handled =>
        /\ (Malformed /\ ~Tombstoned) => (emitted = <<>> /\ calls = <<>>)
        /\ Tombstoned =>
              emitted = (IF isEnabled(note.new.ing)
                         THEN <<Removed(extractHosts(note.new.ing))>>
                         ELSE <<>>)

C14_Witness ==
    /\ note.handled
    /\ Tombstoned
    /\ note.new.ing.rules = <<"a">>
    /\ emitted = <<Removed(<<"a">>)>>


\* the goroutine t leaves its exit handler
ExitStep(t) == mu = t /\ mu' = NoTask

\* startHost spawns a goroutine for h
Starts(h) ==
    \E t \in TaskIds :
        /\ tasks[t].pc = "free"
        /\ tasks'[t].pc = "spawned"
        /\ tasks'[t].host = h
        /\ processes'[h] = t

\* C15 as claimed, its last part: an OnHostsAdded([h]) called after the
\* backend of h has ended is not skipped because of the entry the ended task
\* left behind, but starts a new task for h.
C15_Original == [][(StartStep /\ CurHost \in late) => Starts(CurHost)]_vars

\* C15 as amended: a goroutine whose backend ended by itself gets through its
\* exit handler, which empties the entry of its host in a step that is no
\* stopHost; a goroutine comes into being only in a startHost step for its
\* host; and a startHost that finds no entry for its host starts a task.
C15_BackendFailure ==
    /\ \A t \in TaskIds :
          (tasks[t].pc = "exited" /\ ~tasks[t].cancelled) ~> (tasks[t].pc = "free")
    /\ [][\A t \in TaskIds :
             /\ ExitStep(t) =>
                    /\ processes'[tasks[t].host] = NoTask
                    /\ tasks'[t].pc = "free"
                    /\ calls' = calls
             /\ (tasks[t].pc = "free" /\ tasks'[t].pc # "free") =>
                    /\ StartStep
                    /\ tasks'[t].host = CurHost
                    /\ tasks'[t].pc = "spawned"]_vars
    /\ [][(StartStep /\ processes[CurHost] = NoTask) => Starts(CurHost)]_vars

\* a backend ended by itself, its goroutine is in the exit handler and about
\* to empty its entry, and no call is under way
C15_Witness ==
    \E t \in TaskIds :
        /\ tasks[t].pc = "locked"
        /\ ~tasks[t].cancelled
        /\ processes[tasks[t].host] = t
        /\ calls = <<>>


\* C16 as claimed: every host in the Registry names a task for that host
\* whose backend is about to be started or runs; no entry names a task whose
\* backend has ended.
C16_Original ==
    \A h \in Registry :
        /\ tasks[processes[h]].host = h
        /\ tasks[processes[h]].pc \in {"spawned", "running"}

\* C16 as amended: every host in the Registry names a goroutine for that host
\* that has not left its exit handler -- its backend may have ended -- and
\* whose context nothing but the parent context has cancelled.
C16_EntryNamesUnfinishedTask ==
    \A h \in Registry :
        /\ tasks[processes[h]].host = h
        /\ tasks[processes[h]].pc # "free"
        /\ tasks[processes[h]].cancelled => parentCancelled

\* the backend of a registered host has ended and its goroutine waits for
\* the lock the event thread holds
C16_Witness ==
    \E h \in Registry :
        /\ tasks[processes[h]].pc = "exited"
        /\ ~tasks[processes[h]].cancelled
        /\ mu = Ctl


\* hosts the running call has still to go through
Remaining == IF calls = <<>> THEN 0 ELSE Len(Head(calls).hosts)

\* C17: an OnHostsAdded call returns whatever the backends do, even if none
\* of them ever gets ready or ends; it takes the lock only while a listed
\* host is left, and every release of the lock is done with one listed host.
C17_AddReturns ==
    /\ (calls # <<>> /\ Head(calls).op = "add") ~> (calls = <<>>)
    /\ [][/\ (mu # Ctl /\ mu' = Ctl) => Remaining > 0
          /\ StartStep => Remaining' = Remaining - 1]_vars

\* OnHostsAdded has returned with every host registered and no goroutine
\* has even reached c.Run()
C17_Witness ==
    /\ calls = <<>>
    /\ Registry = Hosts
    /\ \A h \in Hosts : tasks[processes[h]].pc = "spawned"


\* C18: every task that runs and whose context is not cancelled owns the
\* Registry entry of its host, so that a later OnHostsRemoved reaches it.
C18_NoOrphanedAdvertiser ==
    \A t \in TaskIds :
        (tasks[t].pc \in {"spawned", "running"} /\ ~tasks[t].cancelled)
            => processes[tasks[t].host] = t


\* C19: the calls made for a declaration since its creation, applied in
\* order to the empty set, give the hosts of the declaration if it exists
\* and is enabled, and the empty set otherwise.
C19_ReplayGivesCurrentHosts ==
    \A d \in Decls :
        applied[d] = IF isEnabled(decls[d])
                     THEN Range(extractHosts(decls[d]))
                     ELSE {}

\* an update of an enabled declaration has just removed one host and added
\* another
C19_Witness ==
    /\ decls[Followed].rules = <<"b", "b">>
    /\ emitted = <<Removed(<<"a">>), Added(<<"b", "b">>)>>
    /\ applied[Followed] = {"b"}


\* the step leaves the entry and the tasks of every host but h as they are
OthersUntouched(h) ==
    \A g \in Hosts \ {h} :
        /\ processes'[g] = processes[g]
        /\ \A t \in TaskIds : tasks[t].host = g => tasks'[t] = tasks[t]

\* C20: a startHost or stopHost step for h and the exit handler of a task of
\* h leave the entry, the cancellation state and the task of every other
\* host as they are; the context of a task gets cancelled only in a stopHost
\* step for its host or when the parent context is cancelled.
C20_PerHostIsolation ==
    [][/\ (StartStep \/ StopStep) => OthersUntouched(CurHost)
       /\ \A t \in TaskIds :
            /\ ExitStep(t) => OthersUntouched(tasks[t].host)
            /\ (tasks[t].pc # "free" /\ ~tasks[t].cancelled /\ tasks'[t].cancelled)
                  => \/ StopStep /\ CurHost = tasks[t].host
                     \/ ~parentCancelled /\ parentCancelled']_vars

\* OnHostsRemoved([a]) has cancelled the task of a, still running, and the
\* task of b runs on with its entry
C20_Witness ==
    /\ ~parentCancelled
    /\ calls = <<>>
    /\ processes["a"] = NoTask
    /\ processes["b"] # NoTask
    /\ tasks[processes["b"]].pc = "running"
    /\ ~tasks[processes["b"]].cancelled
    /\ \E t \in TaskIds :
          /\ tasks[t].host = "a"
          /\ tasks[t].pc = "running"
          /\ tasks[t].cancelled

====
